---- MODULE Spec2Model ----
(***************************************************************************)
(* A model of the MAGMA DSL compiler gccm.py (src/backends/magma/gccm.py). *)
(*                                                                         *)
(* Text is a sequence of one-character strings, indexed as Python indexes  *)
(* it (from 0; the helpers below translate to TLA+'s 1-based sequences).   *)
(* Generated text is a sequence of strings in which the literal pieces of  *)
(* the generator's templates ("begin", "end", "_kernel", ...) are single   *)
(* elements and spliced input text stays character by character; the      *)
(* padding blanks and line breaks of the templates are left out.           *)
(***************************************************************************)
EXTENDS Integers, Sequences, FiniteSets, TLC

VARIABLES
    input,      \* the file's text as read (line 25); never changes
    fname,      \* the file stem after lines 28-36
    prog,       \* the text not yet consumed (lines 25, 42, 59)
    pc,         \* position of main()
    kernel,     \* the loop variable of line 39, overwritten by line 88
    it,         \* how many values the range iterator of line 39 has handed out
    nloops,     \* prog.count("magma_template"), evaluated once at line 39
    cfile,      \* the writes to the host file, in order
    cufile,     \* the writes to the kernel file, in order
    bounds,     \* line 50
    args,       \* line 53
    template,   \* line 57
    boundvars,  \* line 62
    boundargs,  \* lines 62, 65
    parts,      \* line 68
    numparts,   \* line 69
    kname,      \* line 72
    spans,      \* history: per invocation, where its text lies in input
    fin,        \* argument of the auxiliary function under test
    fout,       \* its return value
    fpc         \* "call" before it runs, "returned" after

vars == << input, fname, prog, pc, kernel, it, nloops, cfile, cufile, bounds,
           args, template, boundvars, boundargs, parts, numparts, kname,
           spans, fin, fout, fpc >>

mainvars == << input, fname, prog, pc, kernel, it, nloops, cfile, cufile,
               bounds, args, template, boundvars, boundargs, parts, numparts,
               kname, spans >>

fnvars == << fin, fout, fpc >>

-----------------------------------------------------------------------------
(* Bounds of the model *)

MaxUnits == 2     \* an input file is at most this many units of text
MaxLine == 5      \* longest buffer given to find_matching on its own
MaxArgs == 4      \* longest declaration list given to find_argslist on its own
MaxIdx == 2       \* begin/end values of a launch range over 0..MaxIdx

-----------------------------------------------------------------------------
(* Python's str operations on sequences of characters *)

Min(S) == CHOOSE x \in S : \A y \in S : x <= y

\* How a slice bound i is read on a string of length n.
PyIdx(i, n) == IF i < 0 THEN (IF i + n < 0 THEN 0 ELSE i + n)
               ELSE (IF i > n THEN n ELSE i)

\* s[a:b]
Slice(s, a, b) ==
    LET lo == PyIdx(a, Len(s))
        hi == PyIdx(b, Len(s))
    IN  IF lo >= hi THEN << >> ELSE SubSeq(s, lo + 1, hi)

\* s[a:]
SliceFrom(s, a) == Slice(s, a, Len(s))

\* s[:b]
SliceTo(s, b) == Slice(s, 0, b)

\* s[i], i >= 0
At(s, i) == s[i + 1]

\* s.find(sub): the lowest index where sub starts, -1 if none
Find(s, sub) ==
    LET hits == { i \in 0..(Len(s) - Len(sub)) : SubSeq(s, i + 1, i + Len(sub)) = sub }
    IN  IF hits = {} THEN -1 ELSE Min(hits)

\* s.count(sub): non-overlapping occurrences, left to right
RECURSIVE Count(_, _)
Count(s, sub) ==
    LET i == Find(s, sub)
    IN  IF i = -1 THEN 0 ELSE 1 + Count(SliceFrom(s, i + Len(sub)), sub)

\* s.split(sep), sep one character
RECURSIVE Split(_, _)
Split(s, sep) ==
    LET i == Find(s, <<sep>>)
    IN  IF i = -1 THEN << s >>
        ELSE << SliceTo(s, i) >> \o Split(SliceFrom(s, i + 1), sep)

\* The indices of s that s[a:b] selects.
SliceIdx(s, a, b) == { i \in 0..(Len(s) - 1) : PyIdx(a, Len(s)) <= i /\ i < PyIdx(b, Len(s)) }

-----------------------------------------------------------------------------
(* The auxiliary functions, lines 137-188 *)

Marker == <<"m","a","g","m","a","_","t","e","m","p","l","a","t","e">>
MarkerLen == 14

\* find_matching's loop without the nesting counter: it stops at the first
\* closing delimiter.
fm_loop_first_close(line, left, right, i3, i, num) ==
    LET closes == { k \in i..(Len(line) - 1) : At(line, k) = right }
    IN  IF closes = {} THEN << i3, Len(line) >> ELSE << i3, Min(closes) + 1 >>

\* The loop of find_matching from index i with counter num.
RECURSIVE fm_loop(_, _, _, _, _, _)
fm_loop(line, left, right, i3, i, num) ==
    IF i >= Len(line) THEN << i3, Len(line) >>
    ELSE LET n2 == IF At(line, i) = right THEN num - 1
                   ELSE IF At(line, i) = left THEN num + 1
                   ELSE num
         IN  IF n2 = 0 THEN << i3, i + 1 >>
             ELSE fm_loop(line, left, right, i3, i + 1, n2)

find_matching(line, left, right) ==
    LET i3 == Find(line, <<left>>)
    IN  fm_loop(line, left, right, i3, i3 + 1, 1)

Seps == {" ", "*", "&"}

\* One pass of the outer loop of find_argslist on the pair <<args, arglist>>.
argslist_step(st) ==
    LET a   == st[1]
        c   == Find(a, <<",">>)
        i1  == IF c = -1 THEN Find(a, <<")">>) ELSE c
        hit == { j \in 0..(i1 - 1) : At(a, i1 - j) \in Seps }
    IN  IF hit = {} THEN st
        ELSE LET j == Min(hit)
             IN  << SliceFrom(a, i1 + 1),
                    st[2] \o <<",">> \o Slice(a, i1 - j + 1, i1) >>

RECURSIVE argslist_loop(_, _)
argslist_loop(st, n) == IF n = 0 THEN st ELSE argslist_loop(argslist_step(st), n - 1)

find_argslist(a) ==
    LET a1      == a \o <<")">>
        numargs == Count(a1, <<",">>) + 1
    IN  SliceFrom(argslist_loop(<< a1, << >> >>, numargs)[2], 1)

\* One pass of the loop of find_argsbound on <<bounds, args, argsbound>>, pass i.
argsbound_step(st, i) ==
    LET b   == st[1]
        a0  == IF i # 0 THEN st[2] \o <<",">> ELSE st[2]
        ab0 == IF i # 0 THEN st[3] \o <<",">> ELSE st[3]
        i1  == Find(b, <<"=">>)
        a1  == a0 \o SliceTo(b, i1)
        ab1 == ab0 \o Slice(b, i1 + 1, Find(b, <<":">>)) \o <<",">>
        ab2 == ab1 \o Slice(b, Find(b, <<":">>) + 1, Find(b, <<",">>))
    IN  << SliceFrom(b, Find(b, <<",">>) + 1), a1, ab2 >>

RECURSIVE argsbound_loop(_, _, _)
argsbound_loop(st, i, n) ==
    IF i >= n THEN st ELSE argsbound_loop(argsbound_step(st, i), i + 1, n)

\* Returns <<args, argsbound>>.
find_argsbound(b) ==
    LET b1      == b \o <<",">>
        numargs == Count(b1, <<"=">>)
        st      == argsbound_loop(<< b1, << >>, << >> >>, 0, numargs)
    IN  << st[2], st[3] >>

-----------------------------------------------------------------------------
(* The auxiliary functions on their own *)

\* The sequences over S of length at most n.
SeqsUpTo(S, n) == UNION { [1..k -> S] : k \in 0..n }

Idle == /\ input = << >> /\ fname = "" /\ prog = << >> /\ pc = "idle"
        /\ kernel = 0 /\ it = 0 /\ nloops = 0 /\ cfile = << >> /\ cufile = << >>
        /\ bounds = << >> /\ args = << >> /\ template = << >>
        /\ boundvars = << >> /\ boundargs = << >> /\ parts = << >>
        /\ numparts = 0 /\ kname = << >> /\ spans = << >>

MatchAlphabet == {"{", "}", "x"}

InitMatch == /\ Idle
             /\ fin \in SeqsUpTo(MatchAlphabet, MaxLine)
             /\ fout = << >>
             /\ fpc = "call"

CallMatch == /\ fpc = "call"
             /\ fout' = find_matching(fin, "{", "}")
             /\ fpc' = "returned"
             /\ UNCHANGED << fin, mainvars >>

NextMatch == CallMatch

SpecMatch == InitMatch /\ [][NextMatch]_vars

ArgsAlphabet == {"a", "b", " ", "*", ","}

InitArgs == /\ Idle
            /\ fin \in SeqsUpTo(ArgsAlphabet, MaxArgs)
            /\ fout = << >>
            /\ fpc = "call"

CallArgs == /\ fpc = "call"
            /\ fout' = find_argslist(fin)
            /\ fpc' = "returned"
            /\ UNCHANGED << fin, mainvars >>

NextArgs == CallArgs

SpecArgs == InitArgs /\ [][NextArgs]_vars

-----------------------------------------------------------------------------
(* The input files *)

B1      == <<"<","<","e","=","0",":","n",">",">">>
B2      == <<"<","<","e","=","0",":","n",","," ","d","=","1",":","m",">",">">>
B3      == <<"<","<","e","=","0",":","n",",","d","=","0",":","m",",","i","=","1",":","k",">",">">>
B4      == <<"<","<","e","=","0",":","n",",","d","=","0",":","m",",","i","=","0",":","k",",","j","=","0",":","l",">",">">>
BSpace  == <<"<","<","e"," ","="," ","0",":","n",">",">">>
BNoEq   == <<"<","<","e","0",":","n",">",">">>
BCall   == <<"<","<","e","=","0",":","f","(","n",")",">",">">>
A1      == <<"(","i","n","t"," ","*","a",")">>
A2      == <<"(","i","n","t"," ","*","a",","," ","i","n","t"," ","b",")">>
ANested == <<"(","i","n","t"," ","(","*","f",")",","," ","i","n","t"," ","b",")">>
ATrail  == <<"(","i","n","t"," ","a"," ",")">>
Body1      == <<"{","x","}">>
BodyNested == <<"{","{","x","}","y","}">>
BodyOpen   == <<"{","x">>
BodyMarker == <<"{">> \o Marker \o <<"}">>

Inv(b, a, body) == Marker \o b \o a \o body

\* The pieces an input file is made of: invocations, well-formed and not, and
\* host text.
Units == {
    Inv(B1, A1, Body1),
    Inv(B2, A2, BodyNested),
    Inv(B3, A1, Body1),
    Inv(B4, A1, Body1),
    Inv(BSpace, A1, Body1),
    Inv(BNoEq, A1, Body1),
    Inv(BCall, A1, Body1),
    Inv(B1, ANested, Body1),
    Inv(B1, ATrail, Body1),
    Inv(B1, A1, BodyMarker),
    Inv(B1, A1, BodyOpen),
    Marker \o Body1,
    <<"z",";">>,
    <<"}">> }

RECURSIVE Concat(_)
Concat(ss) == IF ss = << >> THEN << >> ELSE Head(ss) \o Concat(Tail(ss))

Inputs == { Concat(us) : us \in SeqsUpTo(Units, MaxUnits) }

FileStems == {"src", "a_b"}

-----------------------------------------------------------------------------
(* main(), lines 17-131 *)

NoFn == fin = << >> /\ fout = << >> /\ fpc = "none"

Init == /\ input \in Inputs
        /\ fname \in FileStems
        /\ prog = input
        /\ pc = "start"
        /\ kernel = 0 /\ it = 0 /\ nloops = 0
        /\ cfile = << >> /\ cufile = << >>
        /\ bounds = << >> /\ args = << >> /\ template = << >>
        /\ boundvars = << >> /\ boundargs = << >> /\ parts = << >>
        /\ numparts = 0 /\ kname = << >> /\ spans = << >>
        /\ NoFn

TextWrite(t) == [kind |-> "text", name |-> << >>, params |-> << >>, text |-> t]

\* Line 39: range(prog.count("magma_template")) is evaluated once.
Begin == /\ pc = "start"
         /\ nloops' = Count(prog, Marker)
         /\ it' = 0
         /\ pc' = "for"
         /\ UNCHANGED << input, fname, prog, kernel, cfile, cufile, bounds, args,
                         template, boundvars, boundargs, parts, numparts, kname,
                         spans, fnvars >>

\* Line 39: the for statement binds kernel to the iterator's next value.
ForNext == /\ pc = "for"
           /\ it < nloops
           /\ kernel' = it
           /\ it' = it + 1
           /\ pc' = "scan"
           /\ UNCHANGED << input, fname, prog, nloops, cfile, cufile, bounds, args,
                           template, boundvars, boundargs, parts, numparts, kname,
                           spans, fnvars >>

\* Line 39: the iterator is exhausted.
ForExit == /\ pc = "for"
           /\ it >= nloops
           /\ pc' = "tail"
           /\ UNCHANGED << input, fname, prog, kernel, it, nloops, cfile, cufile,
                           bounds, args, template, boundvars, boundargs, parts,
                           numparts, kname, spans, fnvars >>

\* Line 40: prog.index raises ValueError when the marker is not in prog.
ScanFail == /\ pc = "scan"
            /\ Find(prog, Marker) = -1
            /\ pc' = "ValueError"
            /\ UNCHANGED << input, fname, prog, kernel, it, nloops, cfile, cufile,
                            bounds, args, template, boundvars, boundargs, parts,
                            numparts, kname, spans, fnvars >>

\* Lines 50, 53, 56-57 on the text p that follows the marker.
ScanBounds(p)   == Slice(p, Find(p, <<"<","<">>) + 2, Find(p, <<">",">">>))
ScanArgs(p)     == Slice(p, Find(p, <<"(">>) + 1, Find(p, <<")">>))
ScanBody(p)     == find_matching(p, "{", "}")
ScanTemplate(p) == Slice(p, ScanBody(p)[1] + 1, ScanBody(p)[2])

\* Lines 40-59.
Scan == /\ pc = "scan"
        /\ Find(prog, Marker) # -1
        /\ LET i1   == Find(prog, Marker)
               p    == SliceFrom(prog, i1 + MarkerLen)
               i2   == ScanBody(p)[2]
               base == Len(input) - Len(p)
               used == SliceIdx(p, Find(p, <<"<","<">>) + 2, Find(p, <<">",">">>))
                       \cup SliceIdx(p, Find(p, <<"(">>) + 1, Find(p, <<")">>))
                       \cup SliceIdx(p, ScanBody(p)[1] + 1, i2)
           IN  /\ cfile' = Append(cfile, TextWrite(SliceTo(prog, i1)))
               /\ bounds' = ScanBounds(p)
               /\ args' = ScanArgs(p)
               /\ template' = ScanTemplate(p)
               /\ prog' = SliceFrom(p, i2)
               /\ spans' = Append(spans,
                    [start |-> Len(input) - Len(prog) + i1,
                     stop  |-> base + PyIdx(i2, Len(p)),
                     used  |-> { base + k : k \in used },
                     after |-> p,
                     bounds |-> ScanBounds(p),
                     args |-> ScanArgs(p),
                     template |-> ScanTemplate(p),
                     bodyAt |-> ScanBody(p)[1]])
        /\ pc' = "parse"
        /\ UNCHANGED << input, fname, kernel, it, nloops, cufile, boundvars,
                        boundargs, parts, numparts, kname, fnvars >>

\* Lines 62-69.
Parse == /\ pc = "parse"
         /\ boundvars' = find_argsbound(bounds)[1]
         /\ boundargs' = find_argsbound(bounds)[2] \o <<",">> \o find_argslist(args)
         /\ parts' = Split(find_argsbound(bounds)[1], ",")
         /\ numparts' = Len(Split(find_argsbound(bounds)[1], ","))
         /\ pc' = "host"
         /\ UNCHANGED << input, fname, prog, kernel, it, nloops, cfile, cufile,
                         bounds, args, template, kname, spans, fnvars >>

\* Line 72, with the dimension count where the ordinal belongs.
KNameOfDims(k, f) == << "magma_template", "_", ToString(numparts), "_", f >>

\* Line 72.
KName(k, f) == << "magma_template", "_", ToString(k), "_", f >>

\* The parameter names of lines 77, 92, 103 and 118: for each part its begin,
\* then its end.
BeginEnd(ps) ==
    [ i \in 1..(2 * Len(ps)) |->
        ps[(i + 1) \div 2] \o (IF i % 2 = 1 THEN <<"begin">> ELSE <<"end">>) ]

\* Lines 72-80.
EmitHost ==
    /\ pc = "host"
    /\ kname' = KName(kernel, fname)
    /\ cfile' = cfile \o
         << [kind |-> "decl", name |-> KName(kernel, fname),
             params |-> BeginEnd(parts), text |-> args],
            [kind |-> "call", name |-> KName(kernel, fname),
             params |-> << >>, text |-> boundargs] >>
    /\ pc' = "kern"
    /\ UNCHANGED << input, fname, prog, kernel, it, nloops, cufile, bounds, args,
                    template, boundvars, boundargs, parts, numparts, spans,
                    fnvars >>

\* Lines 83-85.
PartsInit(n) ==
    LET p0 == << "blockIdx.x", "blockIdx.y", "threadIdx.x" >>
        p1 == IF n = 1 THEN [p0 EXCEPT ![1] = p0[3]] ELSE p0
    IN  IF n = 2 THEN [p1 EXCEPT ![3] = p1[3]] ELSE p1

\* The text parts[i]+"end-"+parts[i]+"begin" of lines 108-115.
Extent(p) == p \o <<"end", "-">> \o p \o <<"begin">>

\* Lines 106-115 with the two-dimensional case given both axes to the grid.
GridSwapped(ps) ==
    IF Len(ps) = 1 THEN << <<"1">>, <<"1">> >>
    ELSE IF Len(ps) = 2 THEN << Extent(ps[1]), Extent(ps[2]) >>
    ELSE << Extent(ps[1]), Extent(ps[2]) >>

\* Lines 107, 110, 113-114: the arguments of dim3 grid(...).
Grid(ps) ==
    IF Len(ps) = 1 THEN << <<"1">>, <<"1">> >>
    ELSE IF Len(ps) = 2 THEN << Extent(ps[1]) >>
    ELSE << Extent(ps[1]), Extent(ps[2]) >>

\* Lines 108, 111, 115: the arguments of dim3 threads(...).
Threads(ps) ==
    IF Len(ps) = 1 THEN << Extent(ps[1]) >>
    ELSE IF Len(ps) = 2 THEN << Extent(ps[2]) >>
    ELSE << Extent(ps[3]) >>

\* Line 96 raises IndexError on partsinit[3] when there are more than 3 parts;
\* kernel then holds the text of lines 88-94.
EmitKernelFail ==
    /\ pc = "kern"
    /\ numparts > 3
    /\ kernel' = [name |-> kname \o <<"_kernel">>, params |-> BeginEnd(parts),
                  argdecl |-> args]
    /\ pc' = "IndexError"
    /\ UNCHANGED << input, fname, prog, it, nloops, cfile, cufile, bounds, args,
                    template, boundvars, boundargs, parts, numparts, kname,
                    spans, fnvars >>

\* The text lines 88-120 build in kernel.
KernelText ==
    [ name    |-> kname \o <<"_kernel">>,
      params  |-> BeginEnd(parts),
      argdecl |-> args,
      binds   |-> [ i \in 1..numparts |-> << parts[i], PartsInit(numparts)[i] >> ],
      body    |-> template,
      wname   |-> kname,
      wparams |-> BeginEnd(parts),
      wargdecl |-> args,
      grid    |-> Grid(parts),
      threads |-> Threads(parts),
      launch  |-> kname \o <<"_kernel">>,
      lparams |-> BeginEnd(parts),
      largs   |-> find_argslist(args) ]

\* Lines 83-123.
EmitKernel ==
    /\ pc = "kern"
    /\ numparts <= 3
    /\ kernel' = KernelText
    /\ cufile' = Append(cufile, KernelText)
    /\ pc' = "for"
    /\ UNCHANGED << input, fname, prog, it, nloops, cfile, bounds, args,
                    template, boundvars, boundargs, parts, numparts, kname,
                    spans, fnvars >>

\* Line 127.
WriteTail ==
    /\ pc = "tail"
    /\ cfile' = Append(cfile, TextWrite(prog))
    /\ pc' = "done"
    /\ UNCHANGED << input, fname, prog, kernel, it, nloops, cufile, bounds, args,
                    template, boundvars, boundargs, parts, numparts, kname,
                    spans, fnvars >>

Next == \/ Begin
        \/ ForNext
        \/ ForExit
        \/ ScanFail
        \/ Scan
        \/ Parse
        \/ EmitHost
        \/ EmitKernelFail
        \/ EmitKernel
        \/ WriteTail

Spec == Init /\ [][Next]_vars

-----------------------------------------------------------------------------
(* What the properties below speak of *)

\* The number of invocations whose host fragment has been written: every pass
\* writes the text before the marker, the declaration and the call.
HostCount == Len(cfile) \div 3
DeclOf(j) == cfile[3 * j - 1]
CallOf(j) == cfile[3 * j]

\* The generated name of the invocation with ordinal i.
NameOf(i) == << "magma_template", "_", ToString(i), "_", fname >>

\* end - begin of the i-th pair of a parameter list.
ExtentOf(params, i) == params[2 * i] \o <<"-">> \o params[2 * i - 1]

IsSuffix(t, s) == Len(t) <= Len(s) /\ SubSeq(s, Len(s) - Len(t) + 1, Len(s)) = t

RECURSIVE LStrip(_)
LStrip(s) == IF s # << >> /\ Head(s) = " " THEN LStrip(Tail(s)) ELSE s

RECURSIVE RStrip(_)
RStrip(s) == IF s # << >> /\ s[Len(s)] = " " THEN RStrip(SubSeq(s, 1, Len(s) - 1)) ELSE s

Strip(s) == LStrip(RStrip(s))

Has(s, c) == \E i \in 1..Len(s) : s[i] = c

\* The nesting counter of the bracket matcher after index k, started at 1 on s.
Depth(line, s, k) ==
    1 + Cardinality({ i \in (s + 1)..k : At(line, i) = "{" })
      - Cardinality({ i \in (s + 1)..k : At(line, i) = "}" })

\* t is balanced: no prefix closes more than it opens, and the whole closes all.
Balanced(t) ==
    /\ \A k \in 0..(Len(t) - 1) : Depth(t, -1, k) >= 1
    /\ Depth(t, -1, Len(t) - 1) = 1

ConsumedSpan(j) == SubSeq(input, spans[j].start + 1, spans[j].stop)

RECURSIVE Interleaved(_)
Interleaved(j) ==
    IF j = 0 THEN << >>
    ELSE Interleaved(j - 1) \o cfile[3 * j - 2].text \o ConsumedSpan(j)

IdentChars == {"a", "b", "d", "e", "f", "i", "j", "k", "l", "m", "n", "0", "1"}

ClauseName(c)  == Strip(SliceTo(c, Find(c, <<"=">>)))
ClauseRest(c)  == SliceFrom(c, Find(c, <<"=">>) + 1)
ClauseStart(c) == Strip(SliceTo(ClauseRest(c), Find(ClauseRest(c), <<":">>)))
ClauseEnd(c)   == Strip(SliceFrom(ClauseRest(c), Find(ClauseRest(c), <<":">>) + 1))

ClauseShaped(c) ==
    /\ Find(c, <<"=">>) # -1
    /\ Find(ClauseRest(c), <<":">>) # -1
    /\ ClauseName(c) # << >>
    /\ \A i \in 1..Len(ClauseName(c)) : ClauseName(c)[i] \in IdentChars
    /\ ClauseStart(c) # << >>
    /\ ClauseEnd(c) # << >>

BoundsShaped(b) ==
    /\ Len(Split(b, ",")) \in 1..3
    /\ \A i \in 1..Len(Split(b, ",")) : ClauseShaped(Split(b, ",")[i])

RECURSIVE TrailingId(_)
TrailingId(e) ==
    IF e = << >> \/ e[Len(e)] \in Seps THEN << >>
    ELSE TrailingId(SubSeq(e, 1, Len(e) - 1)) \o << e[Len(e)] >>

ClauseComplete(c) == Has(c, "=") /\ Has(c, ":")

BoundsComplete(b) == \A i \in 1..Len(Split(b, ",")) : ClauseComplete(Split(b, ",")[i])

BoundsOpen(p)  == Find(p, <<"<","<">>)
BoundsClose(p) == BoundsOpen(p) + 2 + Find(SliceFrom(p, BoundsOpen(p) + 2), <<">",">">>)
AfterBounds(p) == SliceFrom(p, BoundsClose(p) + 2)
ArgsMatch(p)   == find_matching(AfterBounds(p), "(", ")")
AfterArgs(p)   == SliceFrom(AfterBounds(p), ArgsMatch(p)[2])

\* The three parts are there, in order, each closed.
Delimited(p) ==
    /\ BoundsOpen(p) # -1
    /\ Find(SliceFrom(p, BoundsOpen(p) + 2), <<">",">">>) # -1
    /\ Has(AfterBounds(p), "(")
    /\ At(AfterBounds(p), ArgsMatch(p)[2] - 1) = ")"
    /\ ArgsMatch(p)[2] - 1 > ArgsMatch(p)[1]
    /\ Has(AfterArgs(p), "{")

\* The value of a dim3 argument when the i-th pair is (b[i], e[i]).
ExtentValue(x, k, b, e) ==
    IF x = <<"1">> THEN 1
    ELSE LET i == CHOOSE i \in 1..Len(k.binds) : x = ExtentOf(k.wparams, i)
         IN  e[i] - b[i]

\* dim3 fills the axes it is not given with 1.
Axis(xs, a, k, b, e) == IF a <= Len(xs) THEN ExtentValue(xs[a], k, b, e) ELSE 1

\* <<blockIdx.x, blockIdx.y, threadIdx.x>> of every thread of the launch.
Launched(k, b, e) ==
    (0..(Axis(k.grid, 1, k, b, e) - 1)) \X (0..(Axis(k.grid, 2, k, b, e) - 1))
        \X (0..(Axis(k.threads, 1, k, b, e) - 1))

IndexValue(name, th) ==
    IF name = "blockIdx.x" THEN th[1] ELSE IF name = "blockIdx.y" THEN th[2] ELSE th[3]

\* The values the kernel binds to its dimension variables in thread th.
BoundTuple(k, th) == [ i \in 1..Len(k.binds) |-> IndexValue(k.binds[i][2], th) ]

Ranges(n) == { be \in [1..n -> (0..MaxIdx)] \X [1..n -> (0..MaxIdx)] :
                 \A i \in 1..n : be[1][i] < be[2][i] }

-----------------------------------------------------------------------------
(* C9: for a buffer that holds the opening delimiter, find_matching returns  *)
(* (s, e), s the index of the first opening delimiter and e the index just   *)
(* past the first closing delimiter where the nesting counter reaches zero,  *)
(* the text between them then being balanced; when the counter never reaches *)
(* zero it returns (s, length of the buffer) and raises nothing.             *)
MatcherReturnsNestedSpan ==
    (fpc = "returned" /\ Has(fin, "{")) =>
        LET s     == fout[1]
            e     == fout[2]
            zeros == { k \in (s + 1)..(Len(fin) - 1) : Depth(fin, s, k) = 0 }
        IN  /\ s \in 0..(Len(fin) - 1)
            /\ At(fin, s) = "{"
            /\ \A k \in 0..(s - 1) : At(fin, k) # "{"
            /\ zeros # {} => /\ e = Min(zeros) + 1
                             /\ At(fin, e - 1) = "}"
                             /\ Balanced(Slice(fin, s + 1, e - 1))
            /\ zeros = {} => e = Len(fin)

\* A nested pair was matched and text follows the match.
MatcherNestedWitness ==
    /\ fpc = "returned"
    /\ Has(fin, "{")
    /\ fout[2] < Len(fin)
    /\ \E k \in (fout[1] + 1)..(fout[2] - 1) : Depth(fin, fout[1], k) = 2

-----------------------------------------------------------------------------
(* C3: the i-th invocation in source order (from 0) is named                 *)
(* magma_template_<i>_<filestem> in its declaration, its call, its kernel    *)
(* (<name>_kernel) and its launch wrapper, and the names of a file are       *)
(* pairwise distinct, whatever the dimension and argument counts and         *)
(* whatever the loop body assigned while emitting the invocation before.     *)
OrdinalNames ==
    /\ \A j \in 1..HostCount :
          /\ DeclOf(j).kind = "decl" /\ DeclOf(j).name = NameOf(j - 1)
          /\ CallOf(j).kind = "call" /\ CallOf(j).name = NameOf(j - 1)
    /\ \A j \in 1..Len(cufile) :
          /\ cufile[j].name = NameOf(j - 1) \o <<"_kernel">>
          /\ cufile[j].wname = NameOf(j - 1)
          /\ cufile[j].launch = NameOf(j - 1) \o <<"_kernel">>
    /\ \A j, k \in 1..Len(cufile) : j # k => cufile[j].wname # cufile[k].wname
    /\ \A j, k \in 1..HostCount : j # k => DeclOf(j).name # DeclOf(k).name

\* A file whose two invocations differ in dimension and argument count has
\* been translated to the end.
OrdinalNamesWitness ==
    /\ pc = "done"
    /\ Len(cufile) = 2
    /\ Len(cufile[1].params) # Len(cufile[2].params)
    /\ cufile[1].largs # cufile[2].largs

-----------------------------------------------------------------------------
(* C8: the launch wrapper's geometry follows the dimension count: 1          *)
(* dimension, grid (1,1) and d0end-d0begin threads; 2 dimensions, grid       *)
(* d0end-d0begin and d1end-d1begin threads; 3 dimensions, grid               *)
(* (d0end-d0begin, d1end-d1begin) and d2end-d2begin threads; the wrapper     *)
(* launches <kname>_kernel with every begin/end pair in order and the bare   *)
(* argument names of the call site.                                          *)
LaunchGeometry ==
    \A j \in 1..Len(cufile) :
        LET k == cufile[j]
            n == Len(k.wparams) \div 2
        IN  /\ n = 1 => /\ k.grid = << <<"1">>, <<"1">> >>
                        /\ k.threads = << ExtentOf(k.wparams, 1) >>
            /\ n = 2 => /\ k.grid = << ExtentOf(k.wparams, 1) >>
                        /\ k.threads = << ExtentOf(k.wparams, 2) >>
            /\ n = 3 => /\ k.grid = << ExtentOf(k.wparams, 1), ExtentOf(k.wparams, 2) >>
                        /\ k.threads = << ExtentOf(k.wparams, 3) >>
            /\ k.launch = k.wname \o <<"_kernel">>
            /\ k.launch = k.name
            /\ k.lparams = k.wparams
            /\ k.lparams = DeclOf(j).params
            /\ IsSuffix(<<",">> \o k.largs, CallOf(j).text)

\* A file with a two-dimensional and a three-dimensional invocation has been
\* translated to the end.
LaunchGeometryWitness ==
    /\ pc = "done"
    /\ \E j \in 1..Len(cufile) : Len(cufile[j].wparams) = 4
    /\ \E j \in 1..Len(cufile) : Len(cufile[j].wparams) = 6

-----------------------------------------------------------------------------
(* C1: the passthrough segments and the consumed spans (marker through end   *)
(* of body), concatenated in order, give back the input; each consumed span  *)
(* contains the bounds clause, argument list and body text its invocation    *)
(* uses, so no character is both used by an invocation and copied to the     *)
(* host output, and none is used by two invocations.                         *)
SpansPartitionInput ==
    pc = "done" =>
        /\ Interleaved(Len(spans)) \o cfile[Len(cfile)].text = input
        /\ \A j \in 1..Len(spans) :
              spans[j].used \subseteq (spans[j].start + MarkerLen)..(spans[j].stop - 1)
        /\ \A j, k \in 1..Len(spans) :
              j # k => spans[j].used \cap spans[k].used = {}

-----------------------------------------------------------------------------
(* C2: the scan loop ends exactly when the buffer not yet consumed holds no  *)
(* further marker, and the run then writes that buffer as the tail and       *)
(* completes normally, wherever the markers lie, also inside the text        *)
(* consumed for an earlier invocation.                                       *)
LoopEndsWhenNoMarker ==
    /\ pc = "scan" => Find(prog, Marker) # -1
    /\ pc = "tail" => Find(prog, Marker) = -1
    /\ pc # "ValueError"

-----------------------------------------------------------------------------
(* C4: for a bounds list of 1 to 3 clauses name=start:end, blanks allowed    *)
(* around the tokens, the declaration has the parameters <name>begin and     *)
(* <name>end of every clause in clause order, each one identifier, then the  *)
(* argument declarations verbatim; the call passes start and end of every    *)
(* clause in clause order, then the bare argument names.                     *)
HostFragmentFromClauses ==
    \A j \in 1..HostCount :
        BoundsShaped(spans[j].bounds) =>
            LET cs == Split(spans[j].bounds, ",")
                as == Split(CallOf(j).text, ",")
            IN  /\ Len(DeclOf(j).params) = 2 * Len(cs)
                /\ \A i \in 1..Len(cs) :
                      /\ LStrip(DeclOf(j).params[2 * i - 1]) = ClauseName(cs[i]) \o <<"begin">>
                      /\ LStrip(DeclOf(j).params[2 * i]) = ClauseName(cs[i]) \o <<"end">>
                /\ DeclOf(j).text = spans[j].args
                /\ Len(as) >= 2 * Len(cs)
                /\ \A i \in 1..Len(cs) :
                      /\ Strip(as[2 * i - 1]) = ClauseStart(cs[i])
                      /\ Strip(as[2 * i]) = ClauseEnd(cs[i])
                /\ j <= Len(cufile) => IsSuffix(<<",">> \o cufile[j].largs, CallOf(j).text)

-----------------------------------------------------------------------------
(* C5: for a declaration list of n >= 1 entries the argument parser returns  *)
(* n bare names, the i-th the trailing identifier of the i-th entry (what    *)
(* follows its last blank, '*' or '&'), in order; an entry without trailing  *)
(* identifier is a MalformedArgument failure, so the parser returns normally *)
(* only when every entry has one.                                            *)
ArgNamesAreTrailingIds ==
    fpc = "returned" =>
        LET es == Split(fin, ",")
        IN  /\ \A i \in 1..Len(es) : TrailingId(es[i]) # << >>
            /\ Split(fout, ",") = [ i \in 1..Len(es) |-> TrailingId(es[i]) ]

-----------------------------------------------------------------------------
(* C6: a bounds text with a clause that lacks '=' or ':' ends in a           *)
(* MalformedBounds error: no dimension list comes back for it and no host or *)
(* kernel fragment is emitted from it.                                       *)
MalformedBoundsRejected ==
    /\ pc \in {"host", "kern"} => BoundsComplete(bounds)
    /\ \A j \in 1..HostCount : BoundsComplete(spans[j].bounds)
    /\ \A j \in 1..Len(cufile) : BoundsComplete(spans[j].bounds)

-----------------------------------------------------------------------------
(* C7: the bounds clause is the text between the first '<<' after the marker *)
(* and its '>>'; the argument list is the text between the first '(' after   *)
(* the end of the bounds clause and the ')' that matches it; the body starts *)
(* at the first '{' after the argument list.                                 *)
PartsInOrder ==
    \A j \in 1..Len(spans) :
        LET p == spans[j].after
        IN  Delimited(p) =>
              /\ spans[j].bounds = Slice(p, BoundsOpen(p) + 2, BoundsClose(p))
              /\ spans[j].args = Slice(AfterBounds(p), ArgsMatch(p)[1] + 1, ArgsMatch(p)[2] - 1)
              /\ spans[j].bodyAt = BoundsClose(p) + 2 + ArgsMatch(p)[2] + Find(AfterArgs(p), <<"{">>)

-----------------------------------------------------------------------------
(* C10: for 1, 2 or 3 dimensions and all begin_i < end_i, the launch runs    *)
(* the body once for each index tuple of the iteration space: over all       *)
(* blocks and threads of the geometry, the tuples bound to the dimension     *)
(* variables are the product of the ranges begin_i .. end_i - 1, each once.  *)
BodyRunsOncePerPoint ==
    \A j \in 1..Len(cufile) :
        LET k == cufile[j]
            n == Len(k.binds)
        IN  (n \in 1..3 /\ BoundsShaped(spans[j].bounds)) =>
              \A be \in Ranges(n) :
                LET ths == Launched(k, be[1], be[2])
                    pts == { BoundTuple(k, th) : th \in ths }
                IN  /\ pts = { t \in [1..n -> (0..MaxIdx)] :
                                 \A i \in 1..n : be[1][i] <= t[i] /\ t[i] < be[2][i] }
                    /\ Cardinality(ths) = Cardinality(pts)

====
